---- MODULE Spec2Model ----
(***************************************************************************)
(* A model of cortex/polyutils.py: the Surface mesh operations             *)
(* (extract_chunk, smooth, patches), the lazy caches of a Surface          *)
(* (_memo, the solver caches of geodesic_distance), the final shift of     *)
(* geodesic_distance, Distortion.areal, _quadset and trace_poly.           *)
(*                                                                         *)
(* Conventions.  Vertex ids are the source's (0-based).  A point's         *)
(* coordinates are opaque to every operation modelled here, so a point is  *)
(* represented by the id of the vertex it belongs to.  Faces and edges are *)
(* numbered from 1 (the position in the TLA+ sequence); the source numbers *)
(* them from 0, and only their identity and their order are used.          *)
(***************************************************************************)
EXTENDS Integers, Sequences, FiniteSets, TLC

VARIABLES
    npt,        \* Surface: len(self.pts)
    polys,      \* Surface: self.polys, a sequence of vertex-id triples
    ret,        \* what the last mesh operation returned (or raised)
    nref,       \* Distortion: len(self.ref)
    dpolys,     \* Distortion: self.polys
    flatarea,   \* Distortion.areal: area(self.flat, self.polys), per face
    refarea,    \* Distortion.areal: area(self.ref, self.polys), per face
    areal,      \* what Distortion.areal returned (or raised)
    qpolys,     \* _quadset: self.polys, a dict from sorted tuple to quad
    qcount,     \* history: how often a quad of each key was inserted
    qlast,      \* history: the quad of each key inserted last (<<>>: none)
    edges,      \* trace_poly: the edges given, a sequence of vertex pairs
    eset,       \* trace_poly: the edges not yet traced
    poly,       \* trace_poly: the polygon being traced
    stack,      \* trace_poly: the edges of the polygon being traced
    traced,    \* trace_poly: the polygons yielded so far
    tpc,        \* trace_poly: where the generator is ("outer", "inner",
                \* "done", or the exception that ended it)
    cache,          \* Surface._cache: quantity -> value stored (Absent: no key)
    rlfac_solvers,  \* Surface._rlfac_solvers: m -> handle (Absent: no key)
    nLC_solvers,    \* Surface._nLC_solvers: m -> handle (Absent: no key)
    evals,          \* history: how often each quantity's function was evaluated
    nfactor,        \* history: how often lfac was factorized for each m
    lfacsum,        \* per vertex, whether the column sum of lfac is zero (0) or not (1)
    frames,         \* per thread, the calls in progress, innermost last
    got             \* per thread, what the last call made on the Surface returned

meshVars == <<npt, polys, ret>>
distVars == <<nref, dpolys, flatarea, refarea, areal>>
quadVars == <<qpolys, qcount, qlast>>
traceVars == <<edges, eset, poly, stack, traced, tpc>>
surfVars == <<cache, rlfac_solvers, nLC_solvers, evals, nfactor, lfacsum, frames, got>>
vars == <<meshVars, distVars, quadVars, traceVars, surfVars>>

(***************************************************************************)
(* Bounds                                                                  *)
(***************************************************************************)
\* vertices of a mesh
NumPts == 4
\* faces of a mesh
MaxFaces == 2
\* point ids the quads of a _quadset are made of
QuadPts == 5
\* insertions into a _quadset
MaxInserts == 3
\* edges of a cycle given to trace_poly
MaxCycle == 4
\* points of the Surface whose geodesic distances are asked for
GeoPts == 3
\* evaluations of one memoized function that are followed
MaxEvals == 2
\* factorizations of lfac for one m that are followed
MaxFactor == 2

(***************************************************************************)
(* Helpers                                                                 *)
(***************************************************************************)
None == [op |-> "none"]

RECURSIVE SortedSeq(_)
\* the elements of a finite set of integers, ascending
SortedSeq(S) ==
    IF S = {} THEN <<>>
    ELSE LET m == CHOOSE x \in S : \A y \in S : x <= y
         IN <<m>> \o SortedSeq(S \ {m})

\* every order in which a finite set can be iterated
Orders(S) ==
    {s \in [1..Cardinality(S) -> S] : \A i, j \in DOMAIN s : i # j => s[i] # s[j]}

Range(s) == {s[i] : i \in DOMAIN s}

\* the vertices of the faces F of the face list P
FaceVerts(P, F) == {P[f][k] : f \in F, k \in 1..3}

(***************************************************************************)
(* Surface: construction and the vertex-face incidence                     *)
(***************************************************************************)
Verts == 0..(NumPts - 1)

\* the triangles a mesh is drawn from: three distinct vertices, written with
\* the smallest first (both windings of every vertex triple)
Tris == {t \in Verts \X Verts \X Verts : t[1] < t[2] /\ t[1] < t[3] /\ t[2] # t[3]}

Meshes == UNION {[1..n -> Tris] : n \in 0..MaxFaces}

\* self.connected[v].indices: the faces vertex v occurs in, ascending
\* (a CSR row with duplicates summed and indices sorted)
ConnectedIndices(P, v) ==
    SortedSeq({f \in 1..Len(P) : \E k \in 1..3 : P[f][k] = v})

(***************************************************************************)
(* Surface.extract_chunk                                                   *)
(***************************************************************************)
\* lines 218-220
VisitPt(st, pt) ==
    IF pt \in st.visited THEN st
    ELSE [st EXCEPT !.visited = @ \cup {pt}, !.queue = Append(@, pt)]

\* lines 215-220
VisitFace(P, st, face) ==
    IF face \in st.faces THEN st
    ELSE VisitPt(VisitPt(VisitPt([st EXCEPT !.faces = @ \cup {face}],
                                 P[face][1]), P[face][2]), P[face][3])

RECURSIVE VisitFaces(_, _, _)
\* the for loop of line 214
VisitFaces(P, st, fs) ==
    IF fs = <<>> THEN st
    ELSE VisitFaces(P, VisitFace(P, st, Head(fs)), Tail(fs))

\* a search that stops one face short of the target
SearchStopsEarly(st, nfaces) ==
    Cardinality(st.faces) + 1 < nfaces /\ Len(st.queue) > 0

\* the loop test of line 212
SearchContinues(st, nfaces) ==
    Cardinality(st.faces) < nfaces /\ Len(st.queue) > 0

RECURSIVE ChunkSearch(_, _, _)
\* the while loop of lines 212-220
ChunkSearch(P, st, nfaces) ==
    IF SearchContinues(st, nfaces)
    THEN ChunkSearch(P, VisitFaces(P, [st EXCEPT !.queue = Tail(@)],
                                   ConnectedIndices(P, Head(st.queue))), nfaces)
    ELSE st

\* lines 225-229: a vertex met for the first time gets the next new index,
\* and its point (and auxiliary point) is appended
RenumberPt(acc, pt) ==
    IF pt \in DOMAIN acc.ptmap THEN acc
    ELSE [acc EXCEPT !.ptmap = @ @@ (pt :> Len(acc.pts)),
                     !.pts = Append(@, pt),
                     !.aux = Append(@, pt)]

\* the new indices of a face in the opposite order
RenumberedFaceReversed(ptmap, tri) == <<ptmap[tri[3]], ptmap[tri[2]], ptmap[tri[1]]>>

\* line 230
RenumberedFace(ptmap, tri) == <<ptmap[tri[1]], ptmap[tri[2]], ptmap[tri[3]]>>

\* lines 224-230
RenumberFace(P, acc, face) ==
    LET a == RenumberPt(RenumberPt(RenumberPt(acc, P[face][1]), P[face][2]),
                        P[face][3])
    IN [a EXCEPT !.polys = Append(@, RenumberedFace(a.ptmap, P[face]))]

RECURSIVE RenumberFaces(_, _, _)
\* the for loop of line 223
RenumberFaces(P, acc, fs) ==
    IF fs = <<>> THEN acc
    ELSE RenumberFaces(P, RenumberFace(P, acc, Head(fs)), Tail(fs))

\* extract_chunk(nfaces, seed, auxpts), called with auxpts given (without
\* auxpts the same pts and polys are returned, and no aux).  seed = None picks
\* a random vertex, which is the same choice of seed.  `faces` is a Python
\* set: the order in which line 223 iterates it is not specified, so it is a
\* choice.  sel (the selected faces in that order) and queue (what the search
\* left unvisited) are the locals at the return, kept for the properties.
ExtractChunk(nfaces, seed) ==
    /\ ret = None
    /\ LET st == ChunkSearch(polys, [faces |-> {}, visited |-> {seed},
                                     queue |-> <<seed>>], nfaces)
       IN \E order \in Orders(st.faces) :
            LET acc == RenumberFaces(polys, [ptmap |-> <<>>, pts |-> <<>>,
                                             aux |-> <<>>, polys |-> <<>>],
                                     order)
            IN ret' = [op |-> "extract_chunk", nfaces |-> nfaces, seed |-> seed,
                       sel |-> order, queue |-> st.queue,
                       pts |-> acc.pts, aux |-> acc.aux, polys |-> acc.polys]
    /\ UNCHANGED <<npt, polys>>

(***************************************************************************)
(* Surface.smooth                                                          *)
(***************************************************************************)
\* the vertices of the faces of the vertices in S (lines 242-243)
FaceRing(P, S) ==
    {P[face][k] : face \in UNION {Range(ConnectedIndices(P, pt)) : pt \in S},
                  k \in 1..3}

\* getpts that stops one level early (the test n == 0 of line 244 taken as
\* n <= 1)
RECURSIVE GetPtsShallow(_, _, _)
GetPtsShallow(P, S, n) ==
    IF n <= 1 THEN FaceRing(P, S) ELSE GetPtsShallow(P, FaceRing(P, S), n - 1)

RECURSIVE GetPts(_, _, _)
\* the set of vertices that getpts(pt, n) yields for the vertices pt in S
\* (lines 241-248): at n = 0 the vertices of the faces of pt; at n > 0
\* whatever getpts(q, n - 1) yields for each vertex q of each face of pt
GetPts(P, S, n) ==
    IF n = 0 THEN FaceRing(P, S) ELSE GetPts(P, FaceRing(P, S), n - 1)

\* func(i), lines 251-258, given neighbors = set(getpts(i, neighborhood)):
\* the Gaussian-weighted mean over the neighbours (an opaque number, named by
\* the set it is taken over), or 0 without any
SmoothFunc(neighbors) ==
    IF neighbors # {}
    THEN [neighbors |-> neighbors, kind |-> "gaussmean"]
    ELSE [neighbors |-> neighbors, kind |-> "const", value |-> 0]

\* smooth(scalars, neighborhood), lines 237-260
Smooth(nscalars, neighborhood) ==
    /\ ret = None
    /\ ret' = IF nscalars # npt
              THEN [op |-> "smooth", raised |-> "ValueError"]
              ELSE [op |-> "smooth", raised |-> "no", neighborhood |-> neighborhood,
                    out |-> [i \in Verts |-> SmoothFunc(GetPts(polys, {i}, neighborhood))]]
    /\ UNCHANGED <<npt, polys>>

(***************************************************************************)
(* Surface.patches                                                         *)
(***************************************************************************)
\* the granularities n the model calls patches with, written as in Python
Granularities == {"1", "0.5", "2", "0"}

\* lines 328-342 for a vertex p that has faces: the patch yielded (its
\* coordinates are opaque: it is named by its kind, its vertex and its faces),
\* or the ValueError
PatchOf(P, p, n, withAux) ==
    IF n = "1"
    THEN [kind |-> IF withAux THEN "unique_pts_aux" ELSE "face_pts", p |-> p,
          faces |-> ConnectedIndices(P, p)]
    ELSE IF n = "0.5"
    THEN [kind |-> IF withAux THEN "half_edge_aux" ELSE "half_edge_align", p |-> p,
          faces |-> ConnectedIndices(P, p)]
    ELSE [kind |-> "ValueError", p |-> p, faces |-> ConnectedIndices(P, p)]

NoPatch(p) == [kind |-> "None", p |-> p, faces |-> <<>>]

RECURSIVE PatchesFrom(_, _, _, _, _)
\* the generator run to its end from vertex p on (lines 325-344): what it
\* yielded, and whether it ended by raising
PatchesFrom(P, p, n, withAux, yielded) ==
    IF p >= npt THEN [yielded |-> yielded, raised |-> "no"]
    ELSE IF Len(ConnectedIndices(P, p)) > 0
    THEN LET x == PatchOf(P, p, n, withAux)
         IN IF x.kind = "ValueError"
            THEN [yielded |-> yielded, raised |-> "ValueError"]
            ELSE PatchesFrom(P, p + 1, n, withAux, Append(yielded, x))
    ELSE PatchesFrom(P, p + 1, n, withAux, Append(yielded, NoPatch(p)))

\* list(patches(auxpts, n)): the generator created and consumed to its end
Patches(n, withAux) ==
    /\ ret = None
    /\ LET r == PatchesFrom(polys, 0, n, withAux, <<>>)
       IN ret' = [op |-> "patches", n |-> n, withAux |-> withAux,
                  yielded |-> r.yielded, raised |-> r.raised]
    /\ UNCHANGED <<npt, polys>>

(***************************************************************************)
(* Floating-point values: a rational n/d (d > 0), an infinity, NaN, or the  *)
(* largest finite double (what nan_to_num makes of an infinity)            *)
(***************************************************************************)
Fin(n, d) == [k |-> "fin", n |-> n, d |-> d]
NaN == [k |-> "nan", n |-> 0, d |-> 1]
PosInf == [k |-> "inf", n |-> 1, d |-> 1]
NegInf == [k |-> "inf", n |-> -1, d |-> 1]
PosMax == [k |-> "max", n |-> 1, d |-> 1]
NegMax == [k |-> "max", n |-> -1, d |-> 1]

\* a + b
FAdd(a, b) ==
    IF a.k = "nan" \/ b.k = "nan" THEN NaN
    ELSE IF a.k = "fin" /\ b.k = "fin" THEN Fin(a.n * b.d + b.n * a.d, a.d * b.d)
    ELSE IF a.k = "fin" THEN b
    ELSE IF b.k = "fin" THEN a
    ELSE IF a = b THEN a
    ELSE NaN

\* a / c for an integer count c >= 0
FDivInt(a, c) ==
    IF a.k = "nan" THEN NaN
    ELSE IF c = 0 THEN (IF a.n = 0 THEN NaN ELSE IF a.n > 0 THEN PosInf ELSE NegInf)
    ELSE IF a.k = "fin" THEN Fin(a.n, a.d * c)
    ELSE a

\* a == b on floating-point values that are not NaN; here NaN equals NaN,
\* so that a NaN where a NaN is expected counts as agreeing
FEq(a, b) ==
    IF a.k = "fin" /\ b.k = "fin" THEN a.n * b.d = b.n * a.d ELSE a = b

\* np.nan_to_num
NanToNum(a) ==
    IF a.k = "nan" THEN Fin(0, 1)
    ELSE IF a.k = "inf" THEN (IF a.n > 0 THEN PosMax ELSE NegMax)
    ELSE a

(***************************************************************************)
(* Distortion.areal                                                        *)
(***************************************************************************)
\* the face areas the model draws: 0 (a degenerate face) and powers of two
Areas == {0, 1, 2}

\* log2 of a power of two
Log2(a) == CHOOSE e \in 0..3 : 2^e = a

\* np.log2(flatarea/refarea) for one face (line 396)
Log2Ratio(f, r) ==
    IF f = 0 /\ r = 0 THEN NaN
    ELSE IF r = 0 THEN PosInf
    ELSE IF f = 0 THEN NegInf
    ELSE Fin(Log2(f) - Log2(r), 1)

\* vertratios[polys[:,c]] += tridists (lines 399-401).  With an index array
\* the sum is computed on a copy and then written back, so a vertex that
\* occurs at corner c of several faces is written once per face and keeps one
\* of the writes: the last one or, the write order being unspecified, the
\* first.
ScatterAdd(vr, P, c, tridists, lastWins) ==
    [v \in DOMAIN vr |->
        LET fs == {f \in 1..Len(P) : P[f][c] = v}
        IN IF fs = {} THEN vr[v]
           ELSE LET w == CHOOSE f \in fs :
                           \A g \in fs : IF lastWins THEN g <= f ELSE f <= g
                IN FAdd(vr[v], tridists[w])]

\* len(np.bincount(polys.ravel())): the largest vertex id used, plus one
BincountLen(P) ==
    IF Len(P) = 0 THEN 0
    ELSE 1 + CHOOSE m \in FaceVerts(P, 1..Len(P)) :
                \A v \in FaceVerts(P, 1..Len(P)) : v <= m

\* np.bincount(polys.ravel())[v]
Bincount(P, v) == Cardinality({<<f, k>> \in (1..Len(P)) \X (1..3) : P[f][k] = v})

\* line 404
ZeroToOne(a) == IF a.k = "fin" /\ a.n = 0 THEN Fin(1, 1) ELSE a

\* the property areal, lines 387-405.  pre is vertratios after line 402,
\* lastWins the write order taken at lines 399-401.
\* Dividing an array of len(ref) entries by one of another length raises
\* ValueError, unless that length is 1 (broadcast).
Areal(lastWins) ==
    /\ areal = None
    /\ LET tridists == [f \in 1..Len(dpolys) |-> Log2Ratio(flatarea[f], refarea[f])]
           zeros == [v \in 0..(nref - 1) |-> Fin(0, 1)]
           sums == ScatterAdd(ScatterAdd(ScatterAdd(zeros, dpolys, 1, tridists, lastWins),
                                         dpolys, 2, tridists, lastWins),
                              dpolys, 3, tridists, lastWins)
           binlen == BincountLen(dpolys)
           pre == [v \in 0..(nref - 1) |->
                      FDivInt(sums[v], Bincount(dpolys, IF binlen = 1 THEN 0 ELSE v))]
       IN areal' = IF binlen # nref /\ binlen # 1
                   THEN [op |-> "areal", raised |-> "ValueError"]
                   ELSE [op |-> "areal", raised |-> "no", lastWins |-> lastWins,
                         tridists |-> tridists, pre |-> pre,
                         vertratios |-> [v \in 0..(nref - 1) |->
                                            ZeroToOne(NanToNum(pre[v]))]]
    /\ UNCHANGED <<nref, dpolys, flatarea, refarea>>

(***************************************************************************)
(* _quadset                                                                *)
(***************************************************************************)
\* tuple(sorted(quad)), for a quad of four different point ids
SortedKey(quad) == SortedSeq(Range(quad))

\* the sorted tuples
QuadKeys ==
    {k \in (0..(QuadPts - 1)) \X (0..(QuadPts - 1)) \X (0..(QuadPts - 1)) \X (0..(QuadPts - 1)) :
        k[1] < k[2] /\ k[2] < k[3] /\ k[3] < k[4]}

\* the quads inserted: every set of four point ids wound both ways (neither
\* of them in sorted order)
Quads ==
    {<<k[2], k[3], k[4], k[1]>> : k \in QuadKeys} \cup
    {<<k[4], k[3], k[2], k[1]>> : k \in QuadKeys}

\* a dict without the entry of key
DictDel(dict, key) == [k \in DOMAIN dict \ {key} |-> dict[k]]

\* an insertion that keeps the entry of a key already present
QuadsetKeep(dict, quad) ==
    IF SortedKey(quad) \in DOMAIN dict THEN dict
    ELSE dict @@ (SortedKey(quad) :> quad)

\* lines 369-373: self.polys after __call__(quad)
QuadsetCall(dict, quad) ==
    IF SortedKey(quad) \in DOMAIN dict
    THEN DictDel(dict, SortedKey(quad))
    ELSE dict @@ (SortedKey(quad) :> quad)

\* lines 378-379: the two triangles of a quad
QuadTriangles(quad) == <<SubSeq(quad, 1, 3), <<quad[1], quad[3], quad[4]>>>>

RECURSIVE Triangles(_, _)
\* the property triangles (lines 375-379), the dict's values being iterated
\* in the order `order` of its keys
Triangles(dict, order) ==
    IF order = <<>> THEN <<>>
    ELSE QuadTriangles(dict[Head(order)]) \o Triangles(dict, Tail(order))

RECURSIVE SumOver(_, _)
SumOver(f, S) ==
    IF S = {} THEN 0
    ELSE LET x == CHOOSE y \in S : TRUE IN f[x] + SumOver(f, S \ {x})

\* polys(quad), lines 368-373
QuadInsert(quad) ==
    /\ SumOver(qcount, DOMAIN qcount) < MaxInserts
    /\ qpolys' = QuadsetCall(qpolys, quad)
    /\ qcount' = [qcount EXCEPT ![SortedKey(quad)] = @ + 1]
    /\ qlast' = [qlast EXCEPT ![SortedKey(quad)] = quad]

(***************************************************************************)
(* trace_poly                                                              *)
(***************************************************************************)
\* idx[v], lines 520-523: the edges that have v as an end
EdgesAt(E, v) == {i \in 1..Len(E) : E[i][1] = v \/ E[i][2] = v}

\* the loop test of line 530
PolyOpen(p) == p[Len(p)] # p[1] \/ Len(p) = 1

\* the end appended without looking which end of the edge was reached
OtherEndSecond(edge, last) == [raised |-> "no", pt |-> edge[2]]

\* lines 534-539: the end of the edge that is appended
OtherEnd(edge, last) ==
    IF edge[1] = last THEN [raised |-> "no", pt |-> edge[2]]
    ELSE IF edge[2] = last THEN [raised |-> "no", pt |-> edge[1]]
    ELSE [raised |-> "Exception", pt |-> last]

\* lines 527-529: the outer loop takes any edge left (set.pop) and starts a
\* polygon with its two ends
TracePop ==
    /\ tpc = "outer"
    /\ eset # {}
    /\ \E eidx \in eset :
          /\ eset' = eset \ {eidx}
          /\ poly' = edges[eidx]
          /\ stack' = {eidx}
    /\ tpc' = "inner"
    /\ UNCHANGED <<edges, traced>>

\* lines 530-539: one round of the inner loop.  list(...)[0] of an empty set
\* raises IndexError, eset.remove of an edge no longer in eset raises
\* KeyError.
TraceStep ==
    /\ tpc = "inner"
    /\ PolyOpen(poly)
    /\ LET cand == EdgesAt(edges, poly[Len(poly)]) \ stack
       IN IF cand = {}
          THEN tpc' = "IndexError" /\ UNCHANGED <<eset, poly, stack>>
          ELSE \E next \in cand :
                 IF next \notin eset
                 THEN tpc' = "KeyError" /\ UNCHANGED <<eset, poly, stack>>
                 ELSE LET end == OtherEnd(edges[next], poly[Len(poly)])
                      IN /\ eset' = eset \ {next}
                         /\ stack' = stack \cup {next}
                         /\ IF end.raised = "no"
                            THEN poly' = Append(poly, end.pt) /\ tpc' = "inner"
                            ELSE poly' = poly /\ tpc' = end.raised
    /\ UNCHANGED <<edges, traced>>

\* line 541
TraceYield ==
    /\ tpc = "inner"
    /\ ~PolyOpen(poly)
    /\ traced' = Append(traced, poly)
    /\ tpc' = "outer"
    /\ UNCHANGED <<edges, eset, poly, stack>>

\* line 526 with eset empty: the generator is exhausted
TraceDone ==
    /\ tpc = "outer"
    /\ eset = {}
    /\ tpc' = "done"
    /\ UNCHANGED <<edges, eset, poly, stack, traced>>

(***************************************************************************)
(* Surface: the memoized quantities (_memo) and geodesic_distance.  Calls   *)
(* are followed statement by statement: a thread's frames are the calls it  *)
(* has in progress, the innermost last.                                     *)
(***************************************************************************)
\* the properties decorated with _memo
Props ==
    {"ppts", "connected", "face_normals", "vertex_normals", "face_areas",
     "cotangent_weights", "laplace_operator", "avg_edge_length"}

\* the memoized properties that the function of each property reads, in the
\* order in which it reads them
Uses(q) ==
    CASE q = "ppts" -> <<>>
      [] q = "connected" -> <<>>
      [] q = "face_normals" -> <<"ppts", "ppts", "ppts", "ppts">>
      [] q = "vertex_normals" -> <<"connected", "face_normals", "connected">>
      [] q = "face_areas" -> <<"face_normals">>
      [] q = "cotangent_weights" -> <<"ppts">>
      [] q = "laplace_operator" -> <<"connected", "face_areas", "cotangent_weights">>
      [] q = "avg_edge_length" -> <<"laplace_operator">>

\* the statements of geodesic_distance that read a memoized property, test
\* or fill a solver cache, use a solver, or return
GeoProg ==
    <<"laplace_operator", "avg_edge_length", "test_rlfac", "factor_rlfac",
      "test_nLC", "factor_nLC", "solve", "ppts", "face_normals", "face_areas",
      "cotangent_weights", "phi">>

\* a dictionary without the key
Absent == <<>>

\* the values of m
Ms == {1, 2}

Threads == {1, 2}

GeoVerts == 0..(GeoPts - 1)

\* the values the solver may give for phi at a vertex
PhiVals == {Fin(0, 1), Fin(1, 1), NaN}

\* the key always taken as missing
NeverInCache(c, key) == TRUE

\* line 12: id(fn) not in self._cache
NotInCache(c, key) == c[key] = Absent

\* the key always taken as missing
NeverInSolvers(solvers, m) == TRUE

\* lines 154 and 157: m not in self._rlfac_solvers, m not in self._nLC_solvers
NotInSolvers(solvers, m) == solvers[m] = Absent

\* line 152
GoodRows(colsum) == {v \in DOMAIN colsum : colsum[v] # 0}

\* goodphi.min(): NaN if any entry is NaN
PhiMin(goodphi) ==
    IF \E v \in DOMAIN goodphi : goodphi[v].k = "nan" THEN NaN
    ELSE CHOOSE x \in {goodphi[v] : v \in DOMAIN goodphi} :
             \A v \in DOMAIN goodphi : x.n <= goodphi[v].n

\* lines 197-198: zero outside goodrows, goodphi less its minimum inside
ShiftedPhi(goodphi) ==
    [v \in GeoVerts |->
        IF v \notin DOMAIN goodphi THEN Fin(0, 1)
        ELSE IF PhiMin(goodphi).k = "nan" THEN NaN
        ELSE Fin(goodphi[v].n - PhiMin(goodphi).n, 1)]

MemoFrame(q) ==
    [fn |-> "memofn", q |-> q, pc |-> "test", i |-> 1, val |-> Absent,
     reused |-> FALSE, m |-> 0, verts |-> {}, handle |-> Absent]

GeoFrame(verts, m) ==
    [fn |-> "geodesic_distance", q |-> "", pc |-> "run", i |-> 1, val |-> Absent,
     reused |-> FALSE, m |-> m, verts |-> verts, handle |-> Absent]

Top(t) == frames[t][Len(frames[t])]

SetTop(t, f) == [frames EXCEPT ![t] = [@ EXCEPT ![Len(@)] = f]]

Push(t, f, g) == [frames EXCEPT ![t] = Append([@ EXCEPT ![Len(@)] = f], g)]

InMemo(t, pc) ==
    frames[t] # <<>> /\ Top(t).fn = "memofn" /\ Top(t).pc = pc

InGeo(t, stmt) ==
    frames[t] # <<>> /\ Top(t).fn = "geodesic_distance" /\ GeoProg[Top(t).i] = stmt

\* the caller reads the property q of the Surface
Access(t, q) ==
    /\ frames[t] = <<>>
    /\ frames' = [frames EXCEPT ![t] = <<MemoFrame(q)>>]
    /\ got' = [got EXCEPT ![t] = None]
    /\ UNCHANGED <<cache, rlfac_solvers, nLC_solvers, evals, nfactor, lfacsum>>

\* line 12
MemoTest(t) ==
    /\ InMemo(t, "test")
    /\ frames' = SetTop(t, IF NotInCache(cache, Top(t).q)
                           THEN [Top(t) EXCEPT !.pc = "body"]
                           ELSE [Top(t) EXCEPT !.pc = "return", !.reused = TRUE])
    /\ UNCHANGED <<cache, rlfac_solvers, nLC_solvers, evals, nfactor, lfacsum, got>>

\* line 13, fn(self): the function reads the next property it uses
MemoUse(t) ==
    /\ InMemo(t, "body")
    /\ Top(t).i <= Len(Uses(Top(t).q))
    /\ frames' = Push(t, [Top(t) EXCEPT !.i = @ + 1],
                      MemoFrame(Uses(Top(t).q)[Top(t).i]))
    /\ UNCHANGED <<cache, rlfac_solvers, nLC_solvers, evals, nfactor, lfacsum, got>>

\* line 13, fn(self): the function returns its value (the n-th evaluation
\* of q gives the value <<q, n>>)
MemoEval(t) ==
    /\ InMemo(t, "body")
    /\ Top(t).i > Len(Uses(Top(t).q))
    /\ evals[Top(t).q] < MaxEvals
    /\ evals' = [evals EXCEPT ![Top(t).q] = @ + 1]
    /\ frames' = SetTop(t, [Top(t) EXCEPT !.pc = "store",
                                          !.val = <<Top(t).q, evals[Top(t).q] + 1>>])
    /\ UNCHANGED <<cache, rlfac_solvers, nLC_solvers, nfactor, lfacsum, got>>

\* an assignment that leaves an entry already made as it is
CacheSetDefault(c, key, val) ==
    IF c[key] = Absent THEN [c EXCEPT ![key] = val] ELSE c

\* self._cache[id(fn)] = ...: the entry is made or replaced
CacheSet(c, key, val) == [c EXCEPT ![key] = val]

\* line 13, the assignment to self._cache[id(fn)]
MemoStore(t) ==
    /\ InMemo(t, "store")
    /\ cache' = CacheSet(cache, Top(t).q, Top(t).val)
    /\ frames' = SetTop(t, [Top(t) EXCEPT !.pc = "return"])
    /\ UNCHANGED <<rlfac_solvers, nLC_solvers, evals, nfactor, lfacsum, got>>

\* line 14: what the cache holds is returned, to the function that read the
\* property or to the caller
MemoReturn(t) ==
    /\ InMemo(t, "return")
    /\ frames' = [frames EXCEPT ![t] = SubSeq(@, 1, Len(@) - 1)]
    /\ got' = IF Len(frames[t]) = 1
              THEN [got EXCEPT ![t] =
                       [fn |-> Top(t).q, raised |-> "no", val |-> cache[Top(t).q],
                        reused |-> Top(t).reused]]
              ELSE got
    /\ UNCHANGED <<cache, rlfac_solvers, nLC_solvers, evals, nfactor, lfacsum>>

\* the caller calls geodesic_distance(verts, m)
GeodesicDistance(t, verts, m) ==
    /\ frames[t] = <<>>
    /\ frames' = [frames EXCEPT ![t] = <<GeoFrame(verts, m)>>]
    /\ got' = [got EXCEPT ![t] = None]
    /\ UNCHANGED <<cache, rlfac_solvers, nLC_solvers, evals, nfactor, lfacsum>>

\* lines 145, 148, 168, 169, 176, 182: a memoized property is read
GeoRead(t) ==
    /\ frames[t] # <<>>
    /\ Top(t).fn = "geodesic_distance"
    /\ GeoProg[Top(t).i] \in Props
    /\ frames' = Push(t, [Top(t) EXCEPT !.i = @ + 1], MemoFrame(GeoProg[Top(t).i]))
    /\ UNCHANGED <<cache, rlfac_solvers, nLC_solvers, evals, nfactor, lfacsum, got>>

\* line 154
GeoTestRlfac(t) ==
    /\ InGeo(t, "test_rlfac")
    /\ frames' = SetTop(t, IF NotInSolvers(rlfac_solvers, Top(t).m)
                           THEN [Top(t) EXCEPT !.i = @ + 1]
                           ELSE [Top(t) EXCEPT !.i = @ + 2, !.reused = TRUE])
    /\ UNCHANGED <<cache, rlfac_solvers, nLC_solvers, evals, nfactor, lfacsum, got>>

\* line 155: factorized(...) returns a handle (the n-th factorization for m
\* gives the handle <<"rlfac", m, n>>), which is stored, or raises
GeoFactorRlfac(t) ==
    /\ InGeo(t, "factor_rlfac")
    /\ nfactor[Top(t).m] < MaxFactor
    /\ \E ok \in BOOLEAN :
          IF ok
          THEN /\ nfactor' = [nfactor EXCEPT ![Top(t).m] = @ + 1]
               /\ rlfac_solvers' = [rlfac_solvers EXCEPT ![Top(t).m] =
                                       <<"rlfac", Top(t).m, nfactor[Top(t).m] + 1>>]
               /\ frames' = SetTop(t, [Top(t) EXCEPT !.i = @ + 1])
               /\ got' = got
          ELSE /\ frames' = [frames EXCEPT ![t] = <<>>]
               /\ got' = [got EXCEPT ![t] =
                             [fn |-> "geodesic_distance", raised |-> "RuntimeError"]]
               /\ UNCHANGED <<nfactor, rlfac_solvers>>
    /\ UNCHANGED <<cache, nLC_solvers, evals, lfacsum>>

\* line 157
GeoTestNLC(t) ==
    /\ InGeo(t, "test_nLC")
    /\ frames' = SetTop(t, IF NotInSolvers(nLC_solvers, Top(t).m)
                           THEN [Top(t) EXCEPT !.i = @ + 1]
                           ELSE [Top(t) EXCEPT !.i = @ + 2])
    /\ UNCHANGED <<cache, rlfac_solvers, nLC_solvers, evals, nfactor, lfacsum, got>>

\* line 158
GeoFactorNLC(t) ==
    /\ InGeo(t, "factor_nLC")
    /\ \E ok \in BOOLEAN :
          IF ok
          THEN /\ nLC_solvers' = [nLC_solvers EXCEPT ![Top(t).m] = <<"nLC", Top(t).m>>]
               /\ frames' = SetTop(t, [Top(t) EXCEPT !.i = @ + 1])
               /\ got' = got
          ELSE /\ frames' = [frames EXCEPT ![t] = <<>>]
               /\ got' = [got EXCEPT ![t] =
                             [fn |-> "geodesic_distance", raised |-> "RuntimeError"]]
               /\ UNCHANGED nLC_solvers
    /\ UNCHANGED <<cache, rlfac_solvers, evals, nfactor, lfacsum>>

\* lines 161-165: the heat values are got from the handle stored under m
GeoSolve(t) ==
    /\ InGeo(t, "solve")
    /\ frames' = SetTop(t, [Top(t) EXCEPT !.i = @ + 1,
                                          !.handle = rlfac_solvers[Top(t).m]])
    /\ UNCHANGED <<cache, rlfac_solvers, nLC_solvers, evals, nfactor, lfacsum, got>>

\* lines 196-200: the solver of the Poisson system gives goodphi, one value
\* for each good row; min() of no values raises ValueError
GeoPhi(t) ==
    /\ InGeo(t, "phi")
    /\ frames' = [frames EXCEPT ![t] = <<>>]
    /\ IF GoodRows(lfacsum) = {}
       THEN got' = [got EXCEPT ![t] =
                       [fn |-> "geodesic_distance", raised |-> "ValueError"]]
       ELSE \E goodphi \in [GoodRows(lfacsum) -> PhiVals] :
               got' = [got EXCEPT ![t] =
                          [fn |-> "geodesic_distance", raised |-> "no",
                           verts |-> Top(t).verts, m |-> Top(t).m,
                           reused |-> Top(t).reused, handle |-> Top(t).handle,
                           phi |-> ShiftedPhi(goodphi)]]
    /\ UNCHANGED <<cache, rlfac_solvers, nLC_solvers, evals, nfactor, lfacsum>>

(***************************************************************************)
(* Specification of the mesh operations                                    *)
(***************************************************************************)
MeshIdle == npt = 0 /\ polys = <<>> /\ ret = None

DistIdle ==
    nref = 0 /\ dpolys = <<>> /\ flatarea = <<>> /\ refarea = <<>> /\ areal = None

QuadIdle == qpolys = <<>> /\ qcount = <<>> /\ qlast = <<>>

TraceIdle ==
    /\ edges = <<>> /\ eset = {} /\ poly = <<>> /\ stack = {} /\ traced = <<>>
    /\ tpc = "idle"

SurfIdle ==
    /\ cache = <<>> /\ rlfac_solvers = <<>> /\ nLC_solvers = <<>> /\ evals = <<>>
    /\ nfactor = <<>> /\ lfacsum = <<>> /\ frames = <<>> /\ got = <<>>

\* a Surface over NumPts points, before any call
MeshInit ==
    /\ npt = NumPts
    /\ polys \in Meshes
    /\ ret = None
    /\ DistIdle /\ QuadIdle /\ TraceIdle /\ SurfIdle

ChunkNext ==
    /\ \E nfaces \in 0..(MaxFaces + 1), seed \in Verts : ExtractChunk(nfaces, seed)
    /\ UNCHANGED <<distVars, quadVars, traceVars, surfVars>>

SpecChunk == MeshInit /\ [][ChunkNext]_vars

\* neighborhood radii of smooth
MaxRadius == 2

SmoothNext ==
    /\ \E nscalars \in {NumPts, NumPts + 1}, neighborhood \in 0..MaxRadius :
          Smooth(nscalars, neighborhood)
    /\ UNCHANGED <<distVars, quadVars, traceVars, surfVars>>

SpecSmooth == MeshInit /\ [][SmoothNext]_vars

PatchesNext ==
    /\ \E n \in Granularities, withAux \in BOOLEAN : Patches(n, withAux)
    /\ UNCHANGED <<distVars, quadVars, traceVars, surfVars>>

SpecPatches == MeshInit /\ [][PatchesNext]_vars

\* a Distortion over NumPts points: the faces, and the area of every face in
\* the flat and in the reference embedding (faces on the same three vertices
\* have the same area)
DistInit ==
    /\ nref = NumPts
    /\ dpolys \in Meshes
    /\ flatarea \in [1..Len(dpolys) -> Areas]
    /\ refarea \in [1..Len(dpolys) -> Areas]
    /\ \A f, g \in 1..Len(dpolys) :
          Range(dpolys[f]) = Range(dpolys[g]) =>
              flatarea[f] = flatarea[g] /\ refarea[f] = refarea[g]
    /\ areal = None
    /\ MeshIdle /\ QuadIdle /\ TraceIdle /\ SurfIdle

DistNext ==
    /\ \E lastWins \in BOOLEAN : Areal(lastWins)
    /\ UNCHANGED <<meshVars, quadVars, traceVars, surfVars>>

SpecDist == DistInit /\ [][DistNext]_vars

\* _quadset(): an empty dict
QuadInit ==
    /\ qpolys = <<>>
    /\ qcount = [k \in QuadKeys |-> 0]
    /\ qlast = [k \in QuadKeys |-> <<>>]
    /\ MeshIdle /\ DistIdle /\ TraceIdle /\ SurfIdle

QuadNext ==
    /\ \E quad \in Quads : QuadInsert(quad)
    /\ UNCHANGED <<meshVars, distVars, traceVars, surfVars>>

SpecQuad == QuadInit /\ [][QuadNext]_vars

\* edge k of the cycle 0 - 1 - ... - (n-1) - 0
CycleEdge(n, k) == <<k - 1, k % n>>

Oriented(edge, flip) == IF flip THEN <<edge[2], edge[1]>> ELSE edge

\* the edge lists given to trace_poly: the edges of a cycle of n vertices in
\* any order and each in any orientation, and the same with one edge left
\* out (an open chain, which is not a closed cycle)
TraceInputs ==
    UNION {{[i \in 1..m |-> Oriented(CycleEdge(n, perm[i]), flip[i])] :
               perm \in Orders(1..n), flip \in [1..n -> BOOLEAN],
               m \in {n, n - 1} \ {0}} :
           n \in 1..MaxCycle}

\* trace_poly(edges) called: lines 520-525 done, no polygon asked for yet
TraceInit ==
    /\ edges \in TraceInputs
    /\ eset = 1..Len(edges)
    /\ poly = <<>>
    /\ stack = {}
    /\ traced = <<>>
    /\ tpc = "outer"
    /\ MeshIdle /\ DistIdle /\ QuadIdle /\ SurfIdle

TraceRun == TracePop \/ TraceStep \/ TraceYield \/ TraceDone

TraceNext == TraceRun /\ UNCHANGED <<meshVars, distVars, quadVars, surfVars>>

\* the caller iterates the generator to its end
SpecTrace == TraceInit /\ [][TraceNext]_vars /\ WF_vars(TraceNext)

\* a Surface just constructed (lines 23-25), no call made
SurfInit ==
    /\ cache = [q \in Props |-> Absent]
    /\ rlfac_solvers = [m \in Ms |-> Absent]
    /\ nLC_solvers = [m \in Ms |-> Absent]
    /\ evals = [q \in Props |-> 0]
    /\ nfactor = [m \in Ms |-> 0]
    /\ lfacsum \in [GeoVerts -> {0, 1}]
    /\ frames = [t \in Threads |-> <<>>]
    /\ got = [t \in Threads |-> None]
    /\ MeshIdle /\ DistIdle /\ QuadIdle /\ TraceIdle

\* what thread t may do next
SurfStep(t) ==
    \/ \E q \in Props : Access(t, q)
    \/ \E verts \in (SUBSET GeoVerts) \ {{}}, m \in Ms : GeodesicDistance(t, verts, m)
    \/ MemoTest(t) \/ MemoUse(t) \/ MemoEval(t) \/ MemoStore(t) \/ MemoReturn(t)
    \/ GeoRead(t) \/ GeoTestRlfac(t) \/ GeoFactorRlfac(t)
    \/ GeoTestNLC(t) \/ GeoFactorNLC(t) \/ GeoSolve(t) \/ GeoPhi(t)

\* sequential use: one thread makes all the calls
SurfNext == SurfStep(1) /\ UNCHANGED <<meshVars, distVars, quadVars, traceVars>>

SpecSurface == SurfInit /\ [][SurfNext]_vars

\* the properties read, one after the other, before the threads start
WarmProps == {"ppts", "connected", "face_normals", "face_areas", "cotangent_weights"}

\* a Surface shared by two threads: face_areas, cotangent_weights and
\* connected have been read once (which leaves WarmProps in the cache, see
\* WarmReached), no solver is stored, and every row of lfac is a good row
ThreadsInit ==
    /\ cache = [q \in Props |-> IF q \in WarmProps THEN <<q, 1>> ELSE Absent]
    /\ evals = [q \in Props |-> IF q \in WarmProps THEN 1 ELSE 0]
    /\ rlfac_solvers = [m \in Ms |-> Absent]
    /\ nLC_solvers = [m \in Ms |-> Absent]
    /\ nfactor = [m \in Ms |-> 0]
    /\ lfacsum = [v \in GeoVerts |-> 1]
    /\ frames = [t \in Threads |-> <<>>]
    /\ got = [t \in Threads |-> None]
    /\ MeshIdle /\ DistIdle /\ QuadIdle /\ TraceIdle

\* thread t makes one call on the Surface, a read of a property or
\* geodesic_distance from all the vertices, and runs it to its end
ThreadStep(t) ==
    \/ got[t] = None /\ \E q \in Props : Access(t, q)
    \/ got[t] = None /\ \E m \in Ms : GeodesicDistance(t, GeoVerts, m)
    \/ MemoTest(t) \/ MemoUse(t) \/ MemoEval(t) \/ MemoStore(t) \/ MemoReturn(t)
    \/ GeoRead(t) \/ GeoTestRlfac(t) \/ GeoFactorRlfac(t)
    \/ GeoTestNLC(t) \/ GeoFactorNLC(t) \/ GeoSolve(t) \/ GeoPhi(t)

\* the statements of the two threads interleave in any order
ThreadsNext ==
    /\ \E t \in Threads : ThreadStep(t)
    /\ UNCHANGED <<meshVars, distVars, quadVars, traceVars>>

SpecThreads == ThreadsInit /\ [][ThreadsNext]_vars

(***************************************************************************)
(* Properties of extract_chunk                                             *)
(***************************************************************************)
RECURSIVE ReachVerts(_, _)
\* the vertices joined to V by a chain of faces
ReachVerts(P, V) ==
    LET V2 == V \cup FaceVerts(P, {f \in 1..Len(P) : \E k \in 1..3 : P[f][k] \in V})
    IN IF V2 = V THEN V ELSE ReachVerts(P, V2)

\* the faces reachable from a seed vertex through the incidence graph
ReachFaces(P, seed) ==
    LET V == ReachVerts(P, {seed})
    IN {f \in 1..Len(P) : \E k \in 1..3 : P[f][k] \in V}

\* a returned face, with its new indices replaced by the original vertices
MapBack(r, j) ==
    <<r.pts[r.polys[j][1] + 1], r.pts[r.polys[j][2] + 1], r.pts[r.polys[j][3] + 1]>>

ChunkWholeCall == ret.op = "extract_chunk" /\ ret.nfaces >= Len(polys)

\* C1 as stated: with a target face count >= the total face count, the
\* returned sub-mesh contains every original vertex and every original face,
\* up to the renumbering of the vertices.
C1_AllReturned ==
    ChunkWholeCall =>
        /\ Range(ret.pts) = 0..(npt - 1)
        /\ \A f \in 1..Len(polys) : \E j \in 1..Len(ret.polys) : MapBack(ret, j) = polys[f]

\* C1 amended: with a target face count >= the total face count, the returned
\* sub-mesh holds exactly the faces reachable from the seed through the
\* vertex-face incidence graph, each once and with its vertices in the
\* original order, and exactly the vertices of those faces, each once.
C1_ReachableReturned ==
    ChunkWholeCall =>
        LET R == ReachFaces(polys, ret.seed)
        IN /\ Range(ret.sel) = R
           /\ Len(ret.polys) = Cardinality(R)
           /\ \A j \in 1..Len(ret.polys) : MapBack(ret, j) = polys[ret.sel[j]]
           /\ Range(ret.pts) = FaceVerts(polys, R)
           /\ Len(ret.pts) = Cardinality(FaceVerts(polys, R))

\* a whole-mesh call on a mesh of two or more faces, from a seed that lies on
\* one face only: the other faces are found through the popped vertices
C1_Witness ==
    /\ ChunkWholeCall
    /\ Len(polys) >= 2
    /\ Len(ret.polys) = Len(polys)
    /\ Len(ConnectedIndices(polys, ret.seed)) = 1

NoRepeats(s) == \A i, j \in 1..Len(s) : i # j => s[i] # s[j]

\* C12: the sub-mesh extract_chunk returns is well formed.  The returned
\* points are the vertices of the selected faces, each once, so the
\* renumbering is a bijection onto 0..k-1; every index of a returned face is
\* a valid index into the returned points and the face maps back to the
\* original face, vertices in the same order; every returned vertex is in a
\* returned face; every selected face is reachable from the seed; and the
\* search has stopped with at least nfaces faces or with every reachable
\* face selected.
C12_WellFormedChunk ==
    ret.op = "extract_chunk" =>
        LET k == Len(ret.pts)
            S == Range(ret.sel)
            R == ReachFaces(polys, ret.seed)
        IN /\ NoRepeats(ret.pts) /\ NoRepeats(ret.sel)
           /\ Range(ret.pts) = FaceVerts(polys, S)
           /\ Len(ret.polys) = Len(ret.sel)
           /\ \A j \in 1..Len(ret.polys) :
                 /\ \A c \in 1..3 : ret.polys[j][c] \in 0..(k - 1)
                 /\ MapBack(ret, j) = polys[ret.sel[j]]
           /\ \A i \in 0..(k - 1) :
                 \E j \in 1..Len(ret.polys), c \in 1..3 : ret.polys[j][c] = i
           /\ S \subseteq R
           /\ Len(ret.sel) >= ret.nfaces \/ S = R

\* a call that stopped at its target with a reachable face left, and whose
\* renumbering moves a vertex
C12_Witness ==
    /\ ret.op = "extract_chunk"
    /\ ret.nfaces >= 1
    /\ Len(ret.sel) >= ret.nfaces
    /\ Range(ret.sel) # ReachFaces(polys, ret.seed)
    /\ \E i \in 1..Len(ret.pts) : ret.pts[i] # i - 1

(***************************************************************************)
(* Properties of smooth                                                    *)
(***************************************************************************)
RECURSIVE Within(_, _, _)
\* the vertices reachable from vertex i in at most r hops, a hop leading
\* from a vertex to a vertex of one of its faces
Within(P, i, r) ==
    IF r = 0 THEN {i}
    ELSE LET W == Within(P, i, r - 1)
         IN W \cup FaceVerts(P, {f \in 1..Len(P) : \E k \in 1..3 : P[f][k] \in W})

Smoothed == ret.op = "smooth" /\ ret.raised = "no"

IsolatedGetsZero ==
    \A i \in Verts :
        ConnectedIndices(polys, i) = <<>> =>
            ret.out[i].neighbors = {} /\ ret.out[i].kind = "const" /\ ret.out[i].value = 0

\* C8 as stated: the neighbour set of a vertex with faces, for
\* neighborhoodRadius = r, is the set of vertices within r hops; a vertex
\* without faces has no neighbours and gets 0.
C8_WithinRadius ==
    Smoothed =>
        /\ \A i \in Verts :
              ConnectedIndices(polys, i) # <<>> =>
                  ret.out[i].neighbors = Within(polys, i, ret.neighborhood)
        /\ IsolatedGetsZero

\* C8 amended: the neighbour set of a vertex with at least one face, for
\* neighborhoodRadius = r, is the set of vertices within r + 1 hops (the
\* vertex itself included); a vertex without faces has no neighbours and
\* gets 0.
C8_WithinRadiusPlusOne ==
    Smoothed =>
        /\ \A i \in Verts :
              ConnectedIndices(polys, i) # <<>> =>
                  ret.out[i].neighbors = Within(polys, i, ret.neighborhood + 1)
        /\ IsolatedGetsZero

\* smooth has run with radius >= 1 on a mesh where some vertex has a vertex
\* two hops away that is not one hop away, and has gathered it
C8_Witness ==
    /\ Smoothed
    /\ ret.neighborhood = 1
    /\ \E i \in Verts :
          /\ Within(polys, i, 1) # Within(polys, i, 2)
          /\ ret.out[i].neighbors = Within(polys, i, 2)

(***************************************************************************)
(* Properties of patches                                                   *)
(***************************************************************************)
\* C7 as stated: patches called with a granularity other than 1 and 0.5
\* fails with the invalid-argument error, and yields nothing before it.
C7_FailsFirst ==
    (ret.op = "patches" /\ ret.n \notin {"1", "0.5"}) =>
        (ret.raised = "ValueError" /\ ret.yielded = <<>>)

(***************************************************************************)
(* Properties of Distortion.areal                                          *)
(***************************************************************************)
\* C4 as stated: with identical flat and reference embeddings (so every face
\* has the same area in both), areal returns exactly 1 at every vertex index
\* of the point set, vertices in no face included.
C4_AllOnes ==
    (areal.op = "areal" /\ flatarea = refarea) =>
        /\ areal.raised = "no"
        /\ \A v \in 0..(nref - 1) : areal.vertratios[v] = Fin(1, 1)

IncidentFaces(P, v) == {f \in 1..Len(P) : \E k \in 1..3 : P[f][k] = v}

RECURSIVE FSum(_, _)
FSum(t, S) ==
    IF S = {} THEN Fin(0, 1)
    ELSE LET f == CHOOSE x \in S : TRUE IN FAdd(t[f], FSum(t, S \ {f}))

\* C9 as stated: for every vertex of at least one face, the value of areal
\* before the zero-to-one replacement is the arithmetic mean of the per-face
\* log2 area ratio over the faces incident to the vertex (read here for
\* faces of non-zero area in both embeddings, where every ratio is finite,
\* and for the write order NumPy's implementation has: the last write stays).
C9_MeanOverFaces ==
    (/\ areal.op = "areal" /\ areal.raised = "no" /\ areal.lastWins
     /\ \A f \in 1..Len(dpolys) : flatarea[f] > 0 /\ refarea[f] > 0) =>
        \A v \in 0..(nref - 1) :
            IncidentFaces(dpolys, v) # {} =>
                FEq(areal.pre[v],
                    FDivInt(FSum(areal.tridists, IncidentFaces(dpolys, v)),
                            Cardinality(IncidentFaces(dpolys, v))))

(***************************************************************************)
(* Properties of _quadset                                                  *)
(***************************************************************************)
\* C10: after any sequence of insertions the set holds exactly the keys
\* inserted an odd number of times, each with the quad inserted last under
\* that key, and triangles yields two triangles for each quad held (its
\* first three vertices, and its first, third and fourth), whatever the
\* order the dict is iterated in.
C10_OddParityHeld ==
    /\ DOMAIN qpolys = {k \in DOMAIN qcount : qcount[k] % 2 = 1}
    /\ \A k \in DOMAIN qpolys : qpolys[k] = qlast[k]
    /\ \A order \in Orders(DOMAIN qpolys) :
          LET t == Triangles(qpolys, order)
          IN /\ Len(t) = 2 * Cardinality(DOMAIN qpolys)
             /\ \A i \in 1..Len(order) :
                   /\ t[2 * i - 1] = <<qlast[order[i]][1], qlast[order[i]][2], qlast[order[i]][3]>>
                   /\ t[2 * i] = <<qlast[order[i]][1], qlast[order[i]][3], qlast[order[i]][4]>>

\* a key inserted three times, the third time with the other winding, and
\* held again
C10_Witness ==
    \E k \in DOMAIN qcount :
        /\ qcount[k] = 3
        /\ k \in DOMAIN qpolys
        /\ qpolys[k] = <<k[4], k[3], k[2], k[1]>>

(***************************************************************************)
(* Properties of trace_poly                                                *)
(***************************************************************************)
\* how many edge ends lie at vertex v (a loop edge counts twice)
Degree(E, v) ==
    Cardinality({<<i, k>> \in (1..Len(E)) \X (1..2) : E[i][k] = v})

RECURSIVE JoinedEdges(_, _)
\* the edges joined to the edges S through shared vertices
JoinedEdges(E, S) ==
    LET S2 == S \cup {i \in 1..Len(E) : \E j \in S : Range(E[i]) \cap Range(E[j]) # {}}
    IN IF S2 = S THEN S ELSE JoinedEdges(E, S2)

\* the edges form one closed cycle: every vertex has two edge ends, and the
\* edges hang together
IsClosedCycle(E) ==
    /\ Len(E) >= 1
    /\ \A i \in 1..Len(E) : \A k \in 1..2 : Degree(E, E[i][k]) = 2
    /\ JoinedEdges(E, {1}) = 1..Len(E)

\* polygon p goes along every edge of E exactly once: its steps are the
\* edges of E, each as often as E has it
TraversesOnce(p, E) ==
    /\ Len(p) = Len(E) + 1
    /\ \A i \in 1..Len(E) :
          Cardinality({j \in 1..Len(E) : {p[j], p[j + 1]} = Range(E[i])})
              = Cardinality({k \in 1..Len(E) : Range(E[k]) = Range(E[i])})

\* C2: given the edges of a single closed cycle, in any order and any
\* orientation, trace_poly raises nothing, comes to its end, and has then
\* yielded exactly one polygon, which goes along every edge exactly once and
\* ends at the vertex it starts from.
C2_OneClosedPolygon ==
    /\ [](IsClosedCycle(edges) => tpc \in {"outer", "inner", "done"})
    /\ [](IsClosedCycle(edges) /\ tpc = "done" =>
             /\ Len(traced) = 1
             /\ TraversesOnce(traced[1], edges)
             /\ traced[1][1] = traced[1][Len(traced[1])])
    /\ [](IsClosedCycle(edges) => <>(tpc = "done"))

\* a cycle of three or more edges, not all given in their direction around
\* the cycle, traced to the end
C2_Witness ==
    /\ IsClosedCycle(edges)
    /\ Len(edges) >= 3
    /\ \E i, j \in 1..Len(edges) : i < j /\ edges[i][2] = edges[j][2]
    /\ tpc = "done"
    /\ Len(traced) = 1

(***************************************************************************)
(* Properties of geodesic_distance and of the caches of a Surface           *)
(***************************************************************************)
GeoReturned(t) == got[t] # None /\ got[t].fn = "geodesic_distance" /\ got[t].raised = "no"

\* C3: the array geodesic_distance returns is non-negative at every vertex
\* and 0 at every source vertex given.
C3_ZeroAtSources ==
    \A t \in Threads :
        GeoReturned(t) =>
            /\ \A v \in GeoVerts : got[t].phi[v].k = "fin" /\ got[t].phi[v].n >= 0
            /\ \A v \in got[t].verts : got[t].phi[v] = Fin(0, 1)

\* C5: for each m, lfac is factorized at most once; the handle stored under
\* m is the one of that factorization, it is never removed or replaced, and
\* it is the handle every call with that m solves with.
C5_FactorizedOncePerM ==
    /\ [](\A m \in Ms :
             /\ nfactor[m] <= 1
             /\ (nfactor[m] = 1) = (rlfac_solvers[m] # Absent)
             /\ rlfac_solvers[m] \in {Absent, <<"rlfac", m, 1>>})
    /\ [][\A m \in Ms :
             rlfac_solvers[m] # Absent => rlfac_solvers'[m] = rlfac_solvers[m]]_vars
    /\ [](\A t \in Threads :
             /\ \A k \in 1..Len(frames[t]) :
                   frames[t][k].handle \in {Absent, <<"rlfac", frames[t][k].m, 1>>}
             /\ GeoReturned(t) => got[t].handle = <<"rlfac", got[t].m, 1>>)

\* a call with an m that had its handle already has returned, while the
\* other m has a handle of its own
C5_Witness ==
    /\ GeoReturned(1)
    /\ got[1].reused
    /\ got[1].handle = rlfac_solvers[got[1].m]
    /\ \A m \in Ms : nfactor[m] = 1

\* C6: in sequential use the function of each memoized property is
\* evaluated at most once; the cache entry, once made, is never removed or
\* overwritten; and every access returns the value of that one evaluation.
C6_EvaluatedOnce ==
    /\ [](\A q \in Props :
             /\ evals[q] <= 1
             /\ cache[q] \in {Absent, <<q, 1>>})
    /\ [][\A q \in Props : cache[q] # Absent => cache'[q] = cache[q]]_vars
    /\ [](\A t \in Threads :
             (got[t] # None /\ got[t].fn \in Props) => got[t].val = <<got[t].fn, 1>>)

\* every property has been evaluated, and a property read again by the
\* caller came from the cache
C6_Witness ==
    /\ \A q \in Props : evals[q] = 1
    /\ got[1] # None
    /\ got[1].fn = "face_normals"
    /\ got[1].reused
    /\ got[1].val = cache["face_normals"]

(***************************************************************************)
(* Properties of the caches of a Surface shared by two threads              *)
(***************************************************************************)
\* the Surface the threads start from, as sequential use leaves it
WarmReached ==
    /\ frames[1] = <<>>
    /\ \A q \in Props : cache[q] = (IF q \in WarmProps THEN <<q, 1>> ELSE Absent)
    /\ \A q \in Props : evals[q] = (IF q \in WarmProps THEN 1 ELSE 0)
    /\ \A m \in Ms : rlfac_solvers[m] = Absent /\ nLC_solvers[m] = Absent /\ nfactor[m] = 0
    /\ \A v \in GeoVerts : lfacsum[v] = 1

\* thread t is in memofn for q, past the test, which found no entry
PassedTest(t, k) ==
    /\ frames[t][k].fn = "memofn"
    /\ frames[t][k].pc \in {"body", "store", "return"}
    /\ ~frames[t][k].reused

\* C11: the caches are not single-flight.  Two threads that both found no
\* entry for a property both evaluate its function (two evaluations, two
\* values); a thread's write to _cache puts its own value there whatever
\* entry the other thread has made; and each thread that found no handle
\* for m factorizes and stores its own handle under m.
C11_NotSingleFlight ==
    /\ [](\A k1 \in 1..Len(frames[1]), k2 \in 1..Len(frames[2]) :
             (/\ PassedTest(1, k1) /\ PassedTest(2, k2)
              /\ frames[1][k1].q = frames[2][k2].q
              /\ frames[1][k1].val # Absent /\ frames[2][k2].val # Absent)
             => /\ evals[frames[1][k1].q] = 2
                /\ frames[1][k1].val # frames[2][k2].val)
    /\ [][\A t \in Threads :
             (InMemo(t, "store") /\ frames'[t] # frames[t])
                => cache'[Top(t).q] = Top(t).val]_vars
    /\ [][\A t \in Threads :
             (InGeo(t, "factor_rlfac") /\ frames'[t] # frames[t] /\ frames'[t] # <<>>)
                => /\ nfactor'[Top(t).m] = nfactor[Top(t).m] + 1
                   /\ rlfac_solvers'[Top(t).m] = <<"rlfac", Top(t).m, nfactor'[Top(t).m]>>]_vars

\* both threads found no entry for laplace_operator and both evaluated it;
\* both called geodesic_distance with the same m before a handle was
\* stored and both factorized: the second handle has replaced the first,
\* which the other thread solved with
C11_Witness ==
    /\ GeoReturned(1) /\ GeoReturned(2)
    /\ got[1].m = got[2].m
    /\ ~got[1].reused /\ ~got[2].reused
    /\ nfactor[got[1].m] = 2
    /\ rlfac_solvers[got[1].m] = <<"rlfac", got[1].m, 2>>
    /\ got[1].handle # got[2].handle
    /\ evals["laplace_operator"] = 2
    /\ cache["laplace_operator"] # Absent

====
